---- MODULE Spec2Model ----
(***************************************************************************)
(* State-machine model of src/main.py (Stock-Analyser-Tool): one run of    *)
(* main(), from the prompts through the bucket checks, the fetch, the      *)
(* per-row partition writes and the processing stage.                      *)
(*                                                                         *)
(* Abstractions, all of values that main.py only passes through:           *)
(*   - a fetched table has its index and one price column (Close);         *)
(*   - a timestamp is (year, month, day, hour);                            *)
(*   - a CSV file is the sequence of its lines, header first;              *)
(*   - a local path is the sequence of its components (os.path.join);      *)
(*   - Python's None is the empty tuple, a present value x is <<x>>.       *)
(***************************************************************************)
EXTENDS Integers, Sequences, FiniteSets, TLC

VARIABLES
    pc,                 \* position of the run inside main()
    GCS_BUCKET_NAME,    \* module constant of line 23, as edited by the operator
    storage_target,     \* main: line 164
    processing_target,  \* main: line 165
    ticker,             \* main: line 166
    period,             \* main: line 166
    gcs_bucket,         \* main: line 175 (None or a bucket handle)
    stock_data,         \* fetch_and_store_data: line 96 (None before the fetch)
    row_i,              \* fetch_and_store_data: position of the loop of line 102
    fetched_data,       \* main: line 179 (None or the returned table)
    local_fs,           \* the local file system: directories and files
    gcs_objects,        \* the bucket: blob name -> content
    out,                \* what the run printed, in order
    calls,              \* history: the calls made to collaborators, in order
    fs0,                \* history: local_fs when the run started
    gcs0                \* history: gcs_objects when the run started

vars == <<pc, GCS_BUCKET_NAME, storage_target, processing_target, ticker, period,
          gcs_bucket, stock_data, row_i, fetched_data, local_fs, gcs_objects,
          out, calls, fs0, gcs0>>

---------------------------------------------------------------------------
(* Bounds and input sets *)

MaxLen == 2

Prices == {1, 2}

None == << >>

Some(x) == <<x>>

Ts(y, m, d, h) == [y |-> y, m |-> m, d |-> d, h |-> h]

\* The instants the data source may use as index labels. Two of them fall on
\* the same calendar day (a closed daily bar and the bar of the running day).
Timestamps ==
    { Ts(2024, 1, 12, 0), Ts(2024, 11, 2, 0), Ts(2024, 11, 2, 15), Ts(2025, 1, 12, 0) }

TsLess(a, b) ==
    \/ a.y < b.y
    \/ a.y = b.y /\ a.m < b.m
    \/ a.y = b.y /\ a.m = b.m /\ a.d < b.d
    \/ a.y = b.y /\ a.m = b.m /\ a.d = b.d /\ a.h < b.h

\* Index of a fetched table: ascending instants, as the data source delivers.
AscendingIndexes(n) ==
    { s \in [1..n -> Timestamps] : \A j \in 1..(n - 1) : TsLess(s[j], s[j + 1]) }

\* The tables yf.download may return, the empty one included.
SourceFrames ==
    UNION { { [index |-> idx, Close |-> cl] :
                idx \in AscendingIndexes(n), cl \in [1..n -> Prices] } :
            n \in 0..MaxLen }

\* What the operator may type at a prompt, character by character.
RawChoices ==
    { <<"L", "o", "c", "a", "l">>, <<" ", "g", "c", "p">>,
      <<"d", "a", "t", "a", "b", "r", "i", "c", "k", "s", " ">>,
      <<"s", "3">>, <<"2">>, <<" ", "6">>, <<"9">> }

RawTickers ==
    { << >>, <<" ">>, <<"a">>, <<" ", "A", " ">>, <<"b">>, <<"A", "b">> }

PLACEHOLDER == "your-gcs-bucket-name"

BucketNames == { PLACEHOLDER, "prices-lake" }

---------------------------------------------------------------------------
(* String helpers *)

LowerChar(c) ==
    CASE c = "L" -> "l"
      [] c = "G" -> "g"
      [] c = "A" -> "a"
      [] c = "B" -> "b"
      [] OTHER   -> c

UpperChar(c) ==
    CASE c = "a" -> "A"
      [] c = "b" -> "B"
      [] c = "l" -> "L"
      [] c = "g" -> "G"
      [] OTHER   -> c

\* str.lower() and str.upper(), character by character.
Lower(s) == [j \in 1..Len(s) |-> LowerChar(s[j])]

Upper(s) == [j \in 1..Len(s) |-> UpperChar(s[j])]

RECURSIVE LStrip(_)
LStrip(s) == IF s # << >> /\ Head(s) = " " THEN LStrip(Tail(s)) ELSE s

RECURSIVE RStrip(_)
RStrip(s) ==
    IF s # << >> /\ s[Len(s)] = " " THEN RStrip(SubSeq(s, 1, Len(s) - 1)) ELSE s

Strip(s) == RStrip(LStrip(s))

RECURSIVE Join(_)
Join(s) == IF s = << >> THEN "" ELSE Head(s) \o Join(Tail(s))

\* input(prompt).lower().strip()
NormalizeChoice(raw) == Join(Strip(Lower(raw)))

\* input("Enter ticker symbol: ").upper().strip()
NormalizeTicker(raw) == Join(Strip(Upper(raw)))

\* get_user_choice: the loop re-prompts until the normalized input is an
\* option, so its results are the accepted inputs.
get_user_choice(options) ==
    { NormalizeChoice(raw) : raw \in { r \in RawChoices : NormalizeChoice(r) \in options } }

period_options ==
    ("1" :> "7d") @@ ("2" :> "1mo") @@ ("3" :> "1y") @@ ("4" :> "3y")
        @@ ("5" :> "5y") @@ ("6" :> "max")

---------------------------------------------------------------------------
(* Tables, serialization and partition keys *)

LOCAL_DATA_LAKE_FOLDER == "stock_data_lake"

Pad2(n) == IF n < 10 THEN "0" \o ToString(n) ELSE ToString(n)

\* Variant of strftime: the format '%Y-%m', which drops the day.
strftime_year_month(ts) == ToString(ts.y) \o "-" \o Pad2(ts.m)

\* Timestamp.strftime('%Y-%m-%d'): the time of day is dropped.
strftime(ts) == ToString(ts.y) \o "-" \o Pad2(ts.m) \o "-" \o Pad2(ts.d)

\* How to_csv prints an instant: the date alone at midnight, else date and time.
CsvTimestamp(ts) ==
    IF ts.h = 0 THEN strftime(ts) ELSE strftime(ts) \o " " \o Pad2(ts.h) \o ":00:00"

\* Variant of IsEmpty: the test `stock_data is None`, which a table never
\* satisfies.
IsEmptyTestsNone(df) == FALSE

IsEmpty(df) == Len(df.index) = 0

\* stock_data.iterrows(): the row at position j, named by its index label.
IterRow(df, j) == [name |-> df.index[j], Close |-> df.Close[j]]

\* Lines 103-105: the one-row table of a row, its label turned into the
\* column Date and the ticker embedded as the column Ticker.
DayFrame(row, tk) == [Date |-> <<row.name>>, Close |-> <<row.Close>>, Ticker |-> <<tk>>]

\* Variant of to_csv: index=False forgotten, so the row numbers are written
\* as a first, unnamed column.
to_csv_with_index(df) ==
    <<",Date,Close,Ticker">> \o
    [j \in 1..Len(df.Date) |->
        ToString(j - 1) \o "," \o CsvTimestamp(df.Date[j]) \o "," \o ToString(df.Close[j])
            \o "," \o df.Ticker[j]]

\* df.to_csv(index=False): the header line, then one line per row.
to_csv(df) ==
    <<"Date,Close,Ticker">> \o
    [j \in 1..Len(df.Date) |->
        CsvTimestamp(df.Date[j]) \o "," \o ToString(df.Close[j]) \o "," \o df.Ticker[j]]

\* stock_data.reset_index(): the index becomes the column Date.
reset_index(df) == [Date |-> df.index, Close |-> df.Close]

RECURSIVE os_path_join(_)
os_path_join(cs) ==
    IF Len(cs) = 1 THEN cs[1]
    ELSE os_path_join(SubSeq(cs, 1, Len(cs) - 1)) \o "/" \o cs[Len(cs)]

\* The components joined at line 83.
LocalPathComponents(tk, file_date) ==
    <<LOCAL_DATA_LAKE_FOLDER, "ticker=" \o tk, "date=" \o file_date \o ".csv">>

LocalPath(tk, file_date) == os_path_join(LocalPathComponents(tk, file_date))

\* The blob name of line 89.
BlobName(tk, file_date) == "ticker=" \o tk \o "/date=" \o file_date \o ".csv"

\* os.makedirs(os.path.dirname(path), exist_ok=True): every directory on the
\* way to the file exists afterwards; existing ones are not an error.
os_makedirs(dirs, cs) ==
    dirs \cup { os_path_join(SubSeq(cs, 1, k)) : k \in 1..(Len(cs) - 1) }

\* Variant of WriteKey: the file is opened in append mode.
WriteKeyAppend(files, key, content) ==
    [k \in (DOMAIN files) \cup {key} |->
        IF k # key THEN files[k]
        ELSE IF key \in DOMAIN files THEN files[k] \o content
        ELSE content]

\* open(path, "w") and write, or an upload to a blob: the content at the key
\* is replaced, every other key keeps its content.
WriteKey(files, key, content) ==
    [k \in (DOMAIN files) \cup {key} |-> IF k = key THEN content ELSE files[k]]

save_data_locally(fs, df, tk, file_date) ==
    [dirs  |-> os_makedirs(fs.dirs, LocalPathComponents(tk, file_date)),
     files |-> WriteKey(fs.files, LocalPath(tk, file_date), to_csv(df))]

upload_data_to_gcs(objects, df, tk, file_date) ==
    WriteKey(objects, BlobName(tk, file_date), to_csv(df))

EmptyFiles == [k \in {} |-> << >>]

EmptyFs == [dirs |-> {}, files |-> EmptyFiles]

\* A partition left behind by an earlier run of the program.
StaleFrame == DayFrame([name |-> Ts(2024, 1, 12, 0), Close |-> 1], "A")

InitialFs == { EmptyFs, save_data_locally(EmptyFs, StaleFrame, "A", "2024-01-12") }

InitialObjects ==
    { EmptyFiles, upload_data_to_gcs(EmptyFiles, StaleFrame, "A", "2024-01-12") }

---------------------------------------------------------------------------
(* Exceptions *)

\* Variant of ExceptException: a handler for network errors only.
ExceptNetworkErrors(exc) == exc \in {"ConnectionError", "GoogleAPIError"}

\* `except Exception` (lines 77 and 114): every error the collaborators raise
\* derives from Exception.
ExceptException(exc) ==
    exc \in {"DefaultCredentialsError", "ConnectionError", "OSError", "GoogleAPIError"}

\* An entry of the history of calls: the collaborator called, the key or name
\* it was called with, n (the position of the row written, or the number of
\* rows a download returned) and whether the call returned (TRUE) or raised.
Call(op, key, n, ok) == [op |-> op, key |-> key, n |-> n, ok |-> ok]

Emit(msg) == Append(out, msg)

---------------------------------------------------------------------------
(* The run of main() *)

Init ==
    /\ pc = "start"
    /\ GCS_BUCKET_NAME \in BucketNames
    /\ storage_target = ""
    /\ processing_target = ""
    /\ ticker = ""
    /\ period = ""
    /\ gcs_bucket = None
    /\ stock_data = None
    /\ row_i = 0
    /\ fetched_data = None
    /\ local_fs \in InitialFs
    /\ gcs_objects \in InitialObjects
    /\ out = << >>
    /\ calls = << >>
    /\ fs0 = local_fs
    /\ gcs0 = gcs_objects

\* Lines 164-166: the three prompts.
MainPrompt ==
    /\ pc = "start"
    /\ \E st \in get_user_choice({"local", "gcp"}),
          pt \in get_user_choice({"local", "databricks"}),
          raw \in RawTickers,
          ch \in get_user_choice(DOMAIN period_options) :
            /\ storage_target' = st
            /\ processing_target' = pt
            /\ ticker' = NormalizeTicker(raw)
            /\ period' = period_options[ch]
    /\ pc' = "validate"
    /\ UNCHANGED <<GCS_BUCKET_NAME, gcs_bucket, stock_data, row_i, fetched_data,
                   local_fs, gcs_objects, out, calls, fs0, gcs0>>

\* Variant of PlaceholderBucket: the comparison against a mistyped literal.
PlaceholderBucketTypo(target, name) == target = "gcp" /\ name = "your-bucket-name"

\* Line 171: the object store is selected and the bucket name was never edited.
PlaceholderBucket(target, name) == target = "gcp" /\ name = PLACEHOLDER

\* Lines 168-173: the two early exits of main.
MainValidate ==
    /\ pc = "validate"
    /\ IF ticker = ""
         THEN /\ out' = Emit("No ticker provided. Exiting.")
              /\ pc' = "done"
         ELSE IF PlaceholderBucket(storage_target, GCS_BUCKET_NAME)
         THEN /\ out' = Emit("ERROR: Please update the GCS_BUCKET_NAME in the script before using GCP.")
              /\ pc' = "done"
         ELSE /\ out' = out
              /\ pc' = "bucket"
    /\ UNCHANGED <<GCS_BUCKET_NAME, storage_target, processing_target, ticker, period,
                   gcs_bucket, stock_data, row_i, fetched_data, local_fs, gcs_objects,
                   calls, fs0, gcs0>>

\* get_gcs_bucket (lines 70-79) on one outcome of its environment: the
\* library is not installed, the client constructor raises, or a handle is
\* returned. The result is the handle (or None), the text printed, the call
\* made and whether an exception leaves the function.
get_gcs_bucket(bucket_name, outcome) ==
    IF outcome = "not_installed"
      THEN [value |-> None, crashed |-> FALSE, calls |-> << >>,
            msg |-> <<"FATAL: 'google-cloud-storage' not installed.">>]
    ELSE IF outcome = "client_error"
      THEN [value |-> None,
            crashed |-> ~ExceptException("DefaultCredentialsError"),
            calls |-> <<Call("storage.Client", bucket_name, 0, FALSE)>>,
            msg |-> IF ExceptException("DefaultCredentialsError")
                      THEN <<"FATAL: Could not initialize GCS client.">>
                      ELSE << >>]
    ELSE [value |-> Some(bucket_name), crashed |-> FALSE,
          calls |-> <<Call("storage.Client", bucket_name, 0, TRUE)>>,
          msg |-> << >>]

\* Lines 175-177: the handle is obtained only for the object store, and the
\* run ends when it was asked for and is missing.
MainGetBucket ==
    /\ pc = "bucket"
    /\ IF storage_target = "gcp"
         THEN \E outcome \in {"not_installed", "client_error", "ok"} :
                LET r == get_gcs_bucket(GCS_BUCKET_NAME, outcome) IN
                  /\ gcs_bucket' = r.value
                  /\ out' = out \o r.msg
                  /\ calls' = calls \o r.calls
                  /\ pc' = IF r.crashed THEN "crashed"
                           ELSE IF r.value = None THEN "done"
                           ELSE "fetch"
         ELSE /\ gcs_bucket' = None
              /\ pc' = "fetch"
              /\ UNCHANGED <<out, calls>>
    /\ UNCHANGED <<GCS_BUCKET_NAME, storage_target, processing_target, ticker, period,
                   stock_data, row_i, fetched_data, local_fs, gcs_objects, fs0, gcs0>>

\* The handler of lines 114-116 around the whole body of
\* fetch_and_store_data: the error is printed after what was printed so far
\* and None is returned to main.
HandleInFetch(printed, exc) ==
    IF ExceptException(exc)
      THEN /\ out' = Append(printed, "An error occurred during data fetch: " \o exc)
           /\ fetched_data' = None
           /\ pc' = "process"
      ELSE /\ out' = printed
           /\ pc' = "crashed"
           /\ UNCHANGED fetched_data

Banner == Emit("[1] Fetching data for '" \o ticker \o "'")

\* Lines 94-101: the download, the emptiness check, the entry into the loop.
Fetch ==
    /\ pc = "fetch"
    /\ \/ /\ calls' = Append(calls, Call("yf.download", ticker, 0, FALSE))
          /\ HandleInFetch(Banner, "ConnectionError")
          /\ UNCHANGED <<stock_data, row_i>>
       \/ \E df \in SourceFrames :
            /\ calls' = Append(calls, Call("yf.download", ticker, Len(df.index), TRUE))
            /\ IF IsEmpty(df)
              THEN /\ out' = Append(Banner, "ERROR: No data found for '" \o ticker \o "'.")
                   /\ fetched_data' = None
                   /\ pc' = "process"
                   /\ UNCHANGED <<stock_data, row_i>>
              ELSE /\ out' = Append(Banner, "-> Fetched " \o ToString(Len(df.index))
                                                \o " data points.")
                   /\ stock_data' = Some(df)
                   /\ row_i' = 1
                   /\ pc' = "loop"
                   /\ UNCHANGED fetched_data
    /\ UNCHANGED <<GCS_BUCKET_NAME, storage_target, processing_target, ticker, period,
                   gcs_bucket, local_fs, gcs_objects, fs0, gcs0>>

\* Lines 107-110: which branch of the loop body takes the row.
WriteBranch(target, bucket) ==
    IF target = "local" THEN "save"
    ELSE IF target = "gcp" /\ bucket # None THEN "upload"
    ELSE "skip"

\* Lines 102-110: one iteration of the loop. A write either completes or
\* raises; a local write that raises does so in makedirs (nothing changed) or
\* when the file is opened (the directories exist, the file is untouched).
WriteRow ==
    /\ pc = "loop"
    /\ row_i <= Len(stock_data[1].index)
    /\ LET row       == IterRow(stock_data[1], row_i)
           day_df    == DayFrame(row, ticker)
           file_date == strftime(day_df.Date[1])
           branch    == WriteBranch(storage_target, gcs_bucket)
       IN
         IF branch = "save" THEN
           \/ /\ local_fs' = save_data_locally(local_fs, day_df, ticker, file_date)
              /\ calls' = Append(calls, Call("save", LocalPath(ticker, file_date), row_i, TRUE))
              /\ row_i' = row_i + 1
              /\ UNCHANGED <<gcs_objects, out, fetched_data, pc>>
           \/ /\ \E dirs \in { local_fs.dirs,
                               os_makedirs(local_fs.dirs, LocalPathComponents(ticker, file_date)) } :
                    local_fs' = [local_fs EXCEPT !.dirs = dirs]
              /\ calls' = Append(calls, Call("save", LocalPath(ticker, file_date), row_i, FALSE))
              /\ HandleInFetch(out, "OSError")
              /\ UNCHANGED <<gcs_objects, row_i>>
         ELSE IF branch = "upload" THEN
           \/ /\ gcs_objects' = upload_data_to_gcs(gcs_objects, day_df, ticker, file_date)
              /\ calls' = Append(calls, Call("upload", BlobName(ticker, file_date), row_i, TRUE))
              /\ row_i' = row_i + 1
              /\ UNCHANGED <<local_fs, out, fetched_data, pc>>
           \/ /\ calls' = Append(calls, Call("upload", BlobName(ticker, file_date), row_i, FALSE))
              /\ HandleInFetch(out, "GoogleAPIError")
              /\ UNCHANGED <<local_fs, gcs_objects, row_i>>
         ELSE
           /\ calls' = Append(calls, Call("skip", "", row_i, TRUE))
           /\ row_i' = row_i + 1
           /\ UNCHANGED <<local_fs, gcs_objects, out, fetched_data, pc>>
    /\ UNCHANGED <<GCS_BUCKET_NAME, storage_target, processing_target, ticker, period,
                   gcs_bucket, stock_data, fs0, gcs0>>

\* Lines 112-113: the loop is exhausted; the whole fetched table is returned.
LoopEnd ==
    /\ pc = "loop"
    /\ row_i > Len(stock_data[1].index)
    /\ out' = Emit("-> Data ingestion complete.")
    /\ fetched_data' = Some(reset_index(stock_data[1]))
    /\ pc' = "process"
    /\ UNCHANGED <<GCS_BUCKET_NAME, storage_target, processing_target, ticker, period,
                   gcs_bucket, stock_data, row_i, local_fs, gcs_objects, calls, fs0, gcs0>>

\* process_data_locally (lines 118-124) with plot_stock_performance
\* (lines 50-68): what is printed or shown for the table handed over.
process_data_locally(data, libs) ==
    <<"[2] Processing data locally for '" \o ticker \o "'...">> \o
    ( IF data = None \/ Len(data[1].Date) = 0
        THEN <<"-> No data to process.">>
      ELSE IF ~libs
        THEN <<"WARNING: Plotting libraries not installed.", "<tail of the data>">>
      ELSE <<"Generating plot...", "<plot of Close over Date>">> )

\* provide_databricks_instructions (lines 126-160).
provide_databricks_instructions(tk) ==
    <<"[2] Data is ready for Databricks analysis.",
      "-> Paste the following PySpark code into a Databricks notebook cell:",
      "<PySpark code for " \o tk \o " reading gs://" \o GCS_BUCKET_NAME \o "/>">>

\* Lines 181-184: the processing stage, whatever fetch_and_store_data returned.
\* libs: whether matplotlib and seaborn were importable (lines 14-19).
Process ==
    /\ pc = "process"
    /\ \/ /\ processing_target = "local"
          /\ \E libs \in BOOLEAN : out' = out \o process_data_locally(fetched_data, libs)
       \/ /\ processing_target = "databricks"
          /\ out' = out \o provide_databricks_instructions(ticker)
    /\ pc' = "done"
    /\ UNCHANGED <<GCS_BUCKET_NAME, storage_target, processing_target, ticker, period,
                   gcs_bucket, stock_data, row_i, fetched_data, local_fs, gcs_objects,
                   calls, fs0, gcs0>>

Next ==
    \/ MainPrompt
    \/ MainValidate
    \/ MainGetBucket
    \/ Fetch
    \/ WriteRow
    \/ LoopEnd
    \/ Process

Spec == Init /\ [][Next]_vars

---------------------------------------------------------------------------
(* Vocabulary of the properties *)

Range(seq) == { seq[j] : j \in 1..Len(seq) }

CallsOf(ops) == { j \in 1..Len(calls) : calls[j].op \in ops }

WriteOps == {"save", "upload"}

FailedWrites == { j \in CallsOf(WriteOps) : ~calls[j].ok }

\* fetch_and_store_data has been called and has returned to main.
IngestEnded == pc \in {"process", "done"} /\ CallsOf({"yf.download"}) # {}

SourceRaised == \E j \in CallsOf({"yf.download"}) : ~calls[j].ok

SourceEmpty == \E j \in CallsOf({"yf.download"}) : calls[j].ok /\ calls[j].n = 0

\* The data source returned a series with at least one row.
SourceReturnedRows == \E j \in CallsOf({"yf.download"}) : calls[j].ok /\ calls[j].n > 0

Frame == stock_data[1]

NRows == Len(Frame.index)

CalendarDate(ts) == <<ts.y, ts.m, ts.d>>

DistinctDates ==
    \A j, k \in 1..NRows :
        j # k => CalendarDate(Frame.index[j]) # CalendarDate(Frame.index[k])

\* The key the layout of the data lake prescribes for the date of row j.
PartitionKey(j) ==
    "ticker=" \o ticker \o "/date=" \o ToString(Frame.index[j].y) \o "-"
        \o Pad2(Frame.index[j].m) \o "-" \o Pad2(Frame.index[j].d)

\* The artifacts of the backend selected for the run.
Artifacts == IF storage_target = "local" THEN local_fs.files ELSE gcs_objects

Artifacts0 == IF storage_target = "local" THEN fs0.files ELSE gcs0

\* The data line of the partition file of row j: its fields and the ticker.
DataLine(j) ==
    CsvTimestamp(Frame.index[j]) \o "," \o ToString(Frame.Close[j]) \o "," \o ticker

MsgNoData == "ERROR: No data found for '" \o ticker \o "'."

MsgPlaceholder ==
    "ERROR: Please update the GCS_BUCKET_NAME in the script before using GCP."

MsgDatabricksReady == "[2] Data is ready for Databricks analysis."

MsgFetchError(exc) == "An error occurred during data fetch: " \o exc

---------------------------------------------------------------------------
(* Properties *)

\* C1: when ingest ends over a fetched series of N rows with pairwise
\* distinct dates, started on an empty store, and the write of exactly one
\* row failed, every other row has been written (the rows after the failing
\* one included) and exactly N-1 partition artifacts exist.
C1_OneFailedWriteLeavesOthers ==
    ( /\ IngestEnded
      /\ SourceReturnedRows
      /\ DistinctDates
      /\ Cardinality(FailedWrites) = 1
      /\ DOMAIN Artifacts0 = {} )
    => /\ \A r \in 1..NRows :
            (\A j \in FailedWrites : calls[j].n # r)
                => \E j \in CallsOf(WriteOps) : calls[j].n = r /\ calls[j].ok
       /\ Cardinality(DOMAIN Artifacts) = NRows - 1

\* C2: whenever the data source returned a non-empty series, ingest returns
\* the full fetched series, also when partition writes failed.
C2_ReturnsFullSeries ==
    (IngestEnded /\ SourceReturnedRows)
    => /\ fetched_data # None
       /\ fetched_data[1].Date = Frame.index
       /\ fetched_data[1].Close = Frame.Close

\* C3: if the data source returns an empty series, ingest returns no series,
\* reports that no data was found, performs no partition write on either
\* backend and leaves the stored artifacts as they were.
C3_EmptySeriesNoData ==
    SourceEmpty
    => /\ pc \in {"process", "done"}
       /\ fetched_data = None
       /\ stock_data = None
       /\ MsgNoData \in Range(out)
       /\ CallsOf(WriteOps \cup {"skip"}) = {}
       /\ local_fs = fs0
       /\ gcs_objects = gcs0

C3_Witness == SourceEmpty /\ pc = "done" /\ DOMAIN Artifacts0 # {}

C5_SourceFailureIsFatal ==
    (SourceEmpty \/ SourceRaised)
    => /\ MsgDatabricksReady \notin Range(out)
       /\ "<plot of Close over Date>" \notin Range(out)
       /\ "<tail of the data>" \notin Range(out)

\* C6: after an ingest with the local backend over N rows with pairwise
\* distinct dates in which every write succeeds, started on an empty store,
\* the store holds exactly N artifacts, one at
\* stock_data_lake/ticker=<TICKER>/date=<YYYY-MM-DD>.csv per row and none
\* elsewhere, each with the header and exactly one data row: the row of that
\* date with the ticker embedded.
C6_LocalLayout ==
    ( /\ IngestEnded
      /\ SourceReturnedRows
      /\ storage_target = "local"
      /\ DistinctDates
      /\ FailedWrites = {}
      /\ fs0 = EmptyFs )
    => /\ DOMAIN local_fs.files =
            { LOCAL_DATA_LAKE_FOLDER \o "/" \o PartitionKey(j) \o ".csv" : j \in 1..NRows }
       /\ Cardinality(DOMAIN local_fs.files) = NRows
       /\ \A j \in 1..NRows :
            local_fs.files[LOCAL_DATA_LAKE_FOLDER \o "/" \o PartitionKey(j) \o ".csv"]
                = <<"Date,Close,Ticker", DataLine(j)>>
       /\ gcs_objects = gcs0

C6_Witness ==
    /\ pc = "done"
    /\ SourceReturnedRows
    /\ storage_target = "local"
    /\ DistinctDates
    /\ FailedWrites = {}
    /\ fs0 = EmptyFs
    /\ NRows = 2
    /\ Cardinality(DOMAIN local_fs.files) = 2

\* The completed writes of backend op (save or upload) to key, oldest first.
CompletedWrites(op, key) == { j \in CallsOf({op}) : calls[j].ok /\ calls[j].key = key }

LastWrite(op, key) ==
    CHOOSE j \in CompletedWrites(op, key) : \A k \in CompletedWrites(op, key) : k <= j

StoreOf(op) == IF op = "save" THEN local_fs.files ELSE gcs_objects

Store0Of(op) == IF op = "save" THEN fs0.files ELSE gcs0

\* C7: however often a (ticker, date) partition is written through a
\* backend, there is one artifact at its key, whose content is that of the
\* last write alone (no append, no merge), and the artifacts at the keys not
\* written are as they were.
C7_OverwriteSemantics ==
    \A op \in WriteOps :
        /\ DOMAIN StoreOf(op) =
              DOMAIN Store0Of(op) \cup { calls[j].key : j \in { c \in CallsOf({op}) : calls[c].ok } }
        /\ \A key \in DOMAIN StoreOf(op) :
              IF CompletedWrites(op, key) # {}
                THEN StoreOf(op)[key] =
                        <<"Date,Close,Ticker", DataLine(calls[LastWrite(op, key)].n)>>
                ELSE StoreOf(op)[key] = Store0Of(op)[key]

\* The same key written twice in the run, with different content.
C7_Witness ==
    \E j, k \in CallsOf(WriteOps) :
        /\ j < k
        /\ calls[j].ok /\ calls[k].ok
        /\ calls[j].key = calls[k].key
        /\ DataLine(calls[j].n) # DataLine(calls[k].n)
        /\ Artifacts[calls[k].key] = <<"Date,Close,Ticker", DataLine(calls[k].n)>>

KeyTickers == { NormalizeTicker(raw) : raw \in RawTickers } \ {""}

KeyDates ==
    Timestamps \cup
    { Ts(2024, 1, 1, 0), Ts(2024, 1, 2, 0), Ts(2024, 11, 12, 0), Ts(2024, 12, 1, 0) }

\* C8: the key built by either backend is a function of (ticker, date) and is
\* injective: two pairs get the same key exactly if they are the same pair.
\* Stated, once the ticker of the run is read, of that ticker against every
\* ticker and all the dates, and in every state of the keys the run has
\* written.
C8_KeyInjective ==
    /\ (pc = "validate" /\ ticker # "") =>
         \A t2 \in KeyTickers : \A d1, d2 \in KeyDates :
            LET same == ticker = t2 /\ CalendarDate(d1) = CalendarDate(d2) IN
              /\ (LocalPath(ticker, strftime(d1)) = LocalPath(t2, strftime(d2))) <=> same
              /\ (BlobName(ticker, strftime(d1)) = BlobName(t2, strftime(d2))) <=> same
    /\ \A j, k \in CallsOf(WriteOps) :
         (calls[j].key = calls[k].key)
            <=> CalendarDate(Frame.index[calls[j].n]) = CalendarDate(Frame.index[calls[k].n])

C8_Witness ==
    \E j, k \in CallsOf(WriteOps) :
        /\ calls[j].ok /\ calls[k].ok
        /\ calls[j].key # calls[k].key
        /\ {calls[j].key, calls[k].key} \subseteq DOMAIN Artifacts

\* C9: each covered failure (placeholder bucket name, client that cannot be
\* constructed, empty series, error raised by the source, error raised by a
\* partition write) is reported and the run goes on to its normal end: no
\* state is an unhandled fault, and a run that has not ended can step.
C9_FailuresReported ==
    /\ pc # "crashed"
    /\ pc # "done" => ENABLED Next
    /\ ( /\ pc \notin {"start", "validate"}
         /\ ticker # ""
         /\ storage_target = "gcp"
         /\ GCS_BUCKET_NAME = PLACEHOLDER ) => MsgPlaceholder \in Range(out)
    /\ (\E j \in CallsOf({"storage.Client"}) : ~calls[j].ok)
          => "FATAL: Could not initialize GCS client." \in Range(out)
    /\ SourceEmpty => MsgNoData \in Range(out)
    /\ SourceRaised => MsgFetchError("ConnectionError") \in Range(out)
    /\ \A j \in FailedWrites :
          MsgFetchError(IF calls[j].op = "save" THEN "OSError" ELSE "GoogleAPIError")
              \in Range(out)

C9_Witness == pc = "done" /\ FailedWrites # {} /\ storage_target = "local"

\* C10: in a run that reached the write loop, every row of the fetched
\* series is handed to exactly one write call, of the backend selected at
\* startup, and no row is skipped.
C10_EveryRowWrittenOnce ==
    (IngestEnded /\ SourceReturnedRows)
    => /\ CallsOf({"skip"}) = {}
       /\ \A r \in 1..NRows :
            /\ Cardinality({ j \in CallsOf(WriteOps) : calls[j].n = r }) = 1
            /\ \A j \in CallsOf(WriteOps) :
                 calls[j].op = (IF storage_target = "local" THEN "save" ELSE "upload")

\* The branch of the loop body that skips a row is not reachable from main.
SkipBranchUnreachable ==
    /\ CallsOf({"skip"}) = {}
    /\ pc = "loop" => WriteBranch(storage_target, gcs_bucket) # "skip"

====
